---------------------------- MODULE Spec2Model ----------------------------
(***************************************************************************)
(* The retrieval engine of the Shakespeare scene generator:               *)
(*   SessionManager (src/src/session_manager.py), QuoteSelector            *)
(*   (src/src/quote_selector.py) and the part of QuoteDatabase             *)
(*   (src/src/quote_database.py) the selector reads.                       *)
(*                                                                         *)
(* Conventions.                                                            *)
(*  - An optional Python argument is a sequence of length 0 (None) or 1.   *)
(*  - A Python string that the code splits or joins is a sequence of       *)
(*    one-character strings; other strings are TLA+ strings.               *)
(*  - A Python dict is a function whose DOMAIN is the set of its keys.     *)
(*  - A usage record keeps chunk_id, timestamp and metadata; the timestamp *)
(*    is the reading of the wall clock, modelled by clock.                 *)
(***************************************************************************)
EXTENDS Integers, Sequences, FiniteSets, TLC

VARIABLES
    session,     \* the SessionManager the selector is bound to
    other,       \* a second SessionManager (argument of merge_session)
    disk,        \* text of the session file (a JSON value or JsonInvalid), None without a file
    clock,       \* datetime.now()
    op,          \* name and outcome of the last completed operation
    call,        \* arguments of the last selector call
    answer,      \* what QuoteDatabase.query_by_text returned in that call
    result,      \* what the last selector call returned
    returned,    \* history: ids returned by select_and_mark_used since the last reset/load
    retired,     \* history: ids that were in used_chunk_ids at some reset
    saved,       \* history: the session as it was at the last save_session
    queries,     \* the store queries the last selector call issued
    collection,  \* the ChromaDB collection: id -> document and metadata
    batch,       \* argument of the last add_chunks call
    snapshot,    \* the list the last get_exclusion_list call returned, as its caller holds it
    scene        \* the generate_scene call in progress: position, locals, messages

vars == <<session, other, disk, clock, op, call, answer, result, returned, retired,
          saved, queries, collection, batch, snapshot, scene>>

---------------------------------------------------------------------------
(* Bounds of the model. *)

MaxHistory == 2
MaxClock == 1
MaxCap == 2
MaxNegCap == 1
MaxBatch == 2
MaxSnapshot == 2
MaxTurns == 2

---------------------------------------------------------------------------
(* Generic helpers. *)

None == <<>>
Some(x) == <<x>>

Range(s) == {s[i] : i \in 1..Len(s)}

Take(s, n) == IF n <= 0 THEN <<>> ELSE SubSeq(s, 1, IF n < Len(s) THEN n ELSE Len(s))

\* Python s[:n] on a list: a negative n counts from the end.
SliceTo(s, n) == IF n >= 0 THEN Take(s, n) ELSE Take(s, Len(s) + n)

NoDuplicates(s) == \A i, j \in 1..Len(s) : s[i] = s[j] => i = j

\* s is a subsequence of t (order kept, elements possibly dropped).
RECURSIVE IsSubsequence(_, _)
IsSubsequence(s, t) ==
    IF s = <<>> THEN TRUE
    ELSE IF t = <<>> THEN FALSE
    ELSE IF s[1] = t[1] THEN IsSubsequence(Tail(s), Tail(t))
         ELSE IsSubsequence(s, Tail(t))

\* All orderings of a finite set, as sequences without repetition.
Orderings(S) ==
    {s \in [1..Cardinality(S) -> S] : \A i, j \in 1..Cardinality(S) : s[i] = s[j] => i = j}

---------------------------------------------------------------------------
(* str.split(',') and ','.join(...) on character sequences. *)

Comma == ","

\* str.split(','): ''.split(',') is [''], 'a,'.split(',') is ['a', ''].
RECURSIVE SplitFrom(_, _)
SplitFrom(s, cur) ==
    IF s = <<>> THEN <<cur>>
    ELSE IF s[1] = Comma THEN <<cur>> \o SplitFrom(Tail(s), <<>>)
         ELSE SplitFrom(Tail(s), Append(cur, s[1]))

Split(s) == SplitFrom(s, <<>>)

\* ','.join(values): '' for the empty list.
RECURSIVE Join(_)
Join(values) ==
    IF values = <<>> THEN <<>>
    ELSE IF Len(values) = 1 THEN values[1]
         ELSE values[1] \o <<Comma>> \o Join(Tail(values))

---------------------------------------------------------------------------
(* SessionManager. *)

\* SessionManager._generate_session_id: the timestamp of the construction.
GeneratedId == "s0"

\* SessionManager.__init__: session_id or self._generate_session_id(); ""
\* stands for an absent (None) or empty argument, both falsy.
NewSession(session_id) ==
    [session_id |-> IF session_id = "" THEN GeneratedId ELSE session_id,
     used_chunk_ids |-> {}, usage_history |-> <<>>]

EmptyDict == <<>>

\* `metadata or {}`: None and the empty dict both give {}.
MetadataOrEmpty(metadata) == IF metadata = None THEN EmptyDict ELSE metadata[1]

UsageRecord(chunk_id, now, metadata) ==
    [chunk_id |-> chunk_id, timestamp |-> now, metadata |-> MetadataOrEmpty(metadata)]

\* Plausible bug: history entries are deduplicated by id.
mark_used_dedup(s, chunk_id, now, metadata) ==
    IF chunk_id \in s.used_chunk_ids THEN s
    ELSE [s EXCEPT !.used_chunk_ids = @ \cup {chunk_id},
                   !.usage_history = Append(@, UsageRecord(chunk_id, now, metadata))]

\* SessionManager.mark_used
mark_used(s, chunk_id, now, metadata) ==
    [s EXCEPT !.used_chunk_ids = @ \cup {chunk_id},
              !.usage_history = Append(@, UsageRecord(chunk_id, now, metadata))]

\* SessionManager.is_used
is_used(s, chunk_id) == chunk_id \in s.used_chunk_ids

\* list(a_set): some enumeration of the set, each element once.
ListsOf(S) == Orderings(S)

\* SessionManager.get_exclusion_list: list(self.used_chunk_ids), the lists
\* it may return (the order of a set's enumeration is not fixed).
get_exclusion_list(s) == ListsOf(s.used_chunk_ids)

\* Plausible bug: the tracker's own collection is handed out.
returned_list_live(items) == [items |-> items, live |-> TRUE]

\* The object get_exclusion_list returns: list(...) builds a new list; live
\* tells whether the object is the tracker's own collection, so that changes
\* of either show in the other.
returned_list(items) == [items |-> items, live |-> FALSE]

\* What the holder of a returned list may see once the tracker has changed.
SnapshotAfter(snap, s) ==
    IF snap # None /\ snap[1].live
    THEN {Some([snap[1] EXCEPT !.items = l]) : l \in get_exclusion_list(s)}
    ELSE {snap}

\* Plausible bug: reset clears the used set and keeps the history.
reset_keeps_history(s) == [s EXCEPT !.used_chunk_ids = {}]

\* Plausible bug: reset clears the history and keeps the used set.
reset_keeps_used(s) == [s EXCEPT !.usage_history = <<>>]

\* SessionManager.reset
reset(s) == [s EXCEPT !.used_chunk_ids = {}, !.usage_history = <<>>]

\* Plausible bug: entries of the other history whose id is already used
\* here are dropped.
merge_session_collapsing(s, o) ==
    LET IsNew(r) == r.chunk_id \notin s.used_chunk_ids
    IN  [s EXCEPT !.used_chunk_ids = @ \cup o.used_chunk_ids,
                  !.usage_history = @ \o SelectSeq(o.usage_history, IsNew)]

\* SessionManager.merge_session
merge_session(s, o) ==
    [s EXCEPT !.used_chunk_ids = @ \cup o.used_chunk_ids,
              !.usage_history = @ \o o.usage_history]

\* dict.get(key, default)
Get(dict, key, default) == IF key \in DOMAIN dict THEN dict[key] ELSE default

\* Plausible bug: only usage_count history entries are written.
save_session_counted(s, used_list) ==
    [session_id |-> s.session_id, used_chunk_ids |-> used_list,
     usage_history |-> Take(s.usage_history, Cardinality(s.used_chunk_ids)),
     usage_count |-> Cardinality(s.used_chunk_ids)]

\* SessionManager.save_session: the JSON object written, used_list being
\* list(self.used_chunk_ids).
save_session(s, used_list) ==
    [session_id |-> s.session_id, used_chunk_ids |-> used_list,
     usage_history |-> s.usage_history, usage_count |-> Cardinality(s.used_chunk_ids)]

\* JSON values, as json.dump writes them and json.load reads them; the text
\* of a file that is not JSON is JsonInvalid.
JsonString(s) == [type |-> "string", value |-> s]
JsonNumber(n) == [type |-> "number", value |-> n]
JsonArray(items) == [type |-> "array", value |-> items]
JsonObject(members) == [type |-> "object", value |-> members]
JsonInvalid == [type |-> "invalid", value |-> <<>>]

\* json.dump of one usage record: strings in a dict of strings.
json_dump_record(r) ==
    JsonObject([chunk_id |-> JsonString(r.chunk_id),
                timestamp |-> JsonString(r.timestamp),
                metadata |-> JsonObject([k \in DOMAIN r.metadata |->
                                            JsonString(r.metadata[k])])])

\* json.dump(session_data, f) in save_session.
json_dump(session_data) ==
    JsonObject([session_id |-> JsonString(session_data.session_id),
                used_chunk_ids |->
                    JsonArray([i \in 1..Len(session_data.used_chunk_ids) |->
                                  JsonString(session_data.used_chunk_ids[i])]),
                usage_history |->
                    JsonArray([i \in 1..Len(session_data.usage_history) |->
                                  json_dump_record(session_data.usage_history[i])]),
                usage_count |-> JsonNumber(session_data.usage_count)])

\* json.load(f) on a JSON text: arrays become lists, objects become dicts.
RECURSIVE json_load(_)
json_load(j) ==
    IF j.type = "array" THEN [i \in 1..Len(j.value) |-> json_load(j.value[i])]
    ELSE IF j.type = "object" THEN [k \in DOMAIN j.value |-> json_load(j.value[k])]
    ELSE j.value

\* The characters strings are made of.
Alphabet ==
    {"a", "b", "c", "d", "e", "f", "g", "h", "i", "j", "k", "l", "m", "n", "o", "p",
     "q", "r", "s", "t", "u", "v", "w", "x", "y", "z", "0", "1", "2", "3", "4", "5",
     "6", "7", "8", "9", "_"}

RECURSIVE Concat(_)
Concat(chars) == IF chars = <<>> THEN "" ELSE Head(chars) \o Concat(Tail(chars))

\* Iterating a str: its one-character strings, in order.
Chars(str) == CHOOSE chars \in [1..Len(str) -> Alphabet] : Concat(chars) = str

\* set(v) raises TypeError unless v is iterable and its elements hashable.
CanBeSet(j) ==
    \/ j.type \in {"object", "string"}
    \/ /\ j.type = "array"
       /\ \A i \in 1..Len(j.value) : j.value[i].type \in {"string", "number"}

\* set(v) for a list, a dict (whose iteration yields the keys) or a str
\* (whose iteration yields its characters).
SetOf(j) ==
    IF j.type = "object" THEN DOMAIN j.value
    ELSE IF j.type = "string" THEN Range(Chars(j.value))
    ELSE {json_load(j.value[i]) : i \in 1..Len(j.value)}

\* Plausible bug: the loaded ids and history are added to the current ones.
load_session_merging(s, text) ==
    IF text.type # "object" THEN [ok |-> FALSE, session |-> s]
    ELSE LET members == text.value
             used == Get(members, "used_chunk_ids", JsonArray(<<>>))
             history == Get(members, "usage_history", JsonArray(<<>>))
             s1 == [s EXCEPT !.session_id =
                       IF "session_id" \in DOMAIN members
                       THEN json_load(members.session_id) ELSE @]
         IN  IF ~CanBeSet(used) THEN [ok |-> FALSE, session |-> s1]
             ELSE [ok |-> TRUE,
                   session |-> [s1 EXCEPT !.used_chunk_ids = @ \cup SetOf(used),
                                          !.usage_history = @ \o json_load(history)]]

\* SessionManager.load_session on the text of the file: the session it
\* leaves and whether it returned (ok) or raised.  json.load raises on text
\* that is not JSON; session_data.get raises unless the top level is an
\* object; session_id is assigned before set(...) can raise.
load_session(s, text) ==
    IF text.type # "object" THEN [ok |-> FALSE, session |-> s]
    ELSE LET members == text.value
             used == Get(members, "used_chunk_ids", JsonArray(<<>>))
             history == Get(members, "usage_history", JsonArray(<<>>))
             s1 == [s EXCEPT !.session_id =
                       IF "session_id" \in DOMAIN members
                       THEN json_load(members.session_id) ELSE @]
         IN  IF ~CanBeSet(used) THEN [ok |-> FALSE, session |-> s1]
             ELSE [ok |-> TRUE,
                   session |-> [s1 EXCEPT !.used_chunk_ids = SetOf(used),
                                          !.usage_history = json_load(history)]]

---------------------------------------------------------------------------
(* The fragment store: QuoteDatabase over a ChromaDB collection. *)

\* Tags of the multi-valued fields, as character sequences.
Love == <<"l", "o", "v", "e">>
Fate == <<"f", "a", "t", "e">>
Death == <<"d", "e", "a", "t", "h">>
Melancholy == <<"m", "e", "l", "a", "n", "c", "h", "o", "l", "y">>
Joyful == <<"j", "o", "y", "f", "u", "l">>
Alliteration == <<"a", "l", "l", "i", "t", "e", "r", "a", "t", "i", "o", "n">>
EmptyString == <<>>

\* Python values of a chunk dictionary: str, list of tags, int, bool, None.
PyStr(s) == [type |-> "str", value |-> s]
PyList(items) == [type |-> "list", value |-> items]
PyInt(n) == [type |-> "int", value |-> n]
PyBool(b) == [type |-> "bool", value |-> b]
PyNone == [type |-> "none", value |-> <<>>]

\* Python truthiness of a value.
PyTruthy(v) ==
    CASE v.type = "str" -> v.value # ""
      [] v.type = "list" -> v.value # <<>>
      [] v.type = "int" -> v.value # 0
      [] v.type = "bool" -> v.value
      [] OTHER -> FALSE

\* Chunk dictionaries as the ingestion pipeline hands them to add_chunks.
\* ChunkC has no emotional_tone, ChunkD has no themes and no character_type.
ChunkA ==
    [chunk_id |-> PyStr("a"), chunk_text |-> PyStr("ta"), play_title |-> PyStr("Hamlet"),
     act |-> PyInt(3), character_type |-> PyStr("royalty"),
     themes |-> PyList(<<Love, Fate>>), emotional_tone |-> PyList(<<Melancholy>>),
     context |-> PyStr("soliloquy"), chunk_type |-> PyStr("phrase"),
     formality_level |-> PyStr("high")]
ChunkB ==
    [chunk_id |-> PyStr("b"), chunk_text |-> PyStr("tb"), play_title |-> PyStr("Hamlet"),
     character |-> PyNone, character_type |-> PyStr("commoner"),
     themes |-> PyList(<<Death>>), emotional_tone |-> PyList(<<Melancholy, Joyful>>),
     context |-> PyStr("dialogue"), chunk_type |-> PyStr("phrase"),
     formality_level |-> PyStr("high")]
ChunkC ==
    [chunk_id |-> PyStr("c"), chunk_text |-> PyStr("tc"), play_title |-> PyStr("Macbeth"),
     character_type |-> PyStr("royalty"), themes |-> PyList(<<Love>>),
     literary_devices |-> PyList(<<Alliteration>>),
     context |-> PyStr("soliloquy"), chunk_type |-> PyStr("full_line"),
     formality_level |-> PyStr("low")]
ChunkD ==
    [chunk_id |-> PyStr("d"), chunk_text |-> PyStr("td"), play_title |-> PyStr("Macbeth"),
     emotional_tone |-> PyList(<<Joyful>>), contains_question |-> PyBool(TRUE),
     context |-> PyStr("dialogue"), chunk_type |-> PyStr("phrase"),
     formality_level |-> PyStr("low")]

Chunks == {ChunkA, ChunkB, ChunkC, ChunkD}

ChunkIds == {c.chunk_id.value : c \in Chunks}

\* str(value) of a str, an int or a bool.
py_str(v) ==
    CASE v.type = "int" -> ToString(v.value)
      [] v.type = "bool" -> IF v.value THEN "True" ELSE "False"
      [] OTHER -> v.value

\* QuoteDatabase._prepare_metadata: embedding and chunk_id are left out, a
\* list becomes the comma-joined string of its elements, a None value is
\* dropped, any other value becomes str(value).
prepare_metadata(chunk) ==
    [k \in {key \in (DOMAIN chunk) \ {"embedding", "chunk_id"} : chunk[key].type # "none"} |->
        IF chunk[k].type = "list" THEN Join(chunk[k].value) ELSE py_str(chunk[k])]

\* What the collection keeps of a chunk under its id.
Entry(chunk) == [document |-> chunk.chunk_text.value, metadata |-> prepare_metadata(chunk)]

EmptyCollection == <<>>

\* `not chunk_id` / `not embedding`: the key is missing or its value is falsy.
HasId(chunk) == "chunk_id" \in DOMAIN chunk /\ PyTruthy(chunk.chunk_id)
HasEmbedding(chunk) == "embedding" \in DOMAIN chunk /\ PyTruthy(chunk.embedding)

\* collection.add(ids, embeddings, documents, metadatas) for ids that are
\* distinct: the index stores the entries, or rejects the call and stores
\* nothing.
collection_add(coll, entries) ==
    {[ok |-> TRUE,
      collection |-> [id \in DOMAIN coll \cup DOMAIN entries |->
                         IF id \in DOMAIN entries THEN entries[id] ELSE coll[id]]],
     [ok |-> FALSE, collection |-> coll]}

\* QuoteDatabase.add_chunks: the possible outcomes, each the collection it
\* leaves and whether it returned (ok) or raised.  Chunks without id or
\* embedding are skipped; chunk['chunk_text'] raises KeyError on a kept chunk
\* without text, before anything is written.
add_chunks(coll, chunks) ==
    LET Usable(c) == HasId(c) /\ HasEmbedding(c)
        kept == SelectSeq(chunks, Usable)
    IN  IF chunks = <<>> THEN {[ok |-> TRUE, collection |-> coll]}
        ELSE IF \E i \in 1..Len(kept) : "chunk_text" \notin DOMAIN kept[i]
             THEN {[ok |-> FALSE, collection |-> coll]}
        ELSE IF kept = <<>> THEN {[ok |-> TRUE, collection |-> coll]}
             ELSE collection_add(coll, [id \in {kept[i].chunk_id.value : i \in 1..Len(kept)} |->
                     Entry(CHOOSE c \in Range(kept) : c.chunk_id.value = id)])

\* QuoteDatabase.delete_chunks: an empty list is no call to the index; for
\* any other list collection.delete(ids=chunk_ids) removes the entries with
\* these ids, or the index rejects the call and removes nothing.
delete_chunks(coll, chunk_ids) ==
    IF chunk_ids = <<>> THEN {[ok |-> TRUE, collection |-> coll]}
    ELSE {[ok |-> TRUE,
           collection |-> [id \in (DOMAIN coll) \ Range(chunk_ids) |-> coll[id]]],
          [ok |-> FALSE, collection |-> coll]}

\* QuoteDatabase.reset: client.delete_collection, then _initialize_db, which
\* creates the collection anew.  Either call may be rejected: the first
\* leaves the collection as it was, the second leaves none of its entries.
database_reset(coll) ==
    {[ok |-> TRUE, collection |-> EmptyCollection],
     [ok |-> FALSE, collection |-> coll],
     [ok |-> FALSE, collection |-> EmptyCollection]}

\* The collection the selector's queries start from: Chunks, ingested.
LoadedCollection ==
    [id \in ChunkIds |-> Entry(CHOOSE c \in Chunks : c.chunk_id.value = id)]

Queries == {"q1", "q2"}

\* Distance of each fragment from the embedding of each query; "b" and "c"
\* tie under "q1".
Distance ==
    [q \in Queries |->
        IF q = "q1" THEN [a |-> 1, b |-> 2, c |-> 2, d |-> 3]
                    ELSE [a |-> 4, b |-> 3, c |-> 2, d |-> 1]]

\* One row of query_by_text's formatted result.
Row(coll, id, q) ==
    [chunk_id |-> id, chunk_text |-> coll[id].document,
     metadata |-> coll[id].metadata, distance |-> Distance[q][id]]

\* The store's exact-match metadata predicate (where = None: no predicate).
Matches(metadata, where) ==
    where = None \/
    \A k \in DOMAIN where[1] : k \in DOMAIN metadata /\ metadata[k] = where[1][k]

MatchingIds(coll, where) ==
    {id \in DOMAIN coll : Matches(coll[id].metadata, where)}

\* The orders in which the store may rank the matching fragments:
\* distance ascending, ties in any order.
Rankings(coll, q, where) ==
    {s \in Orderings(MatchingIds(coll, where)) :
        \A i, j \in 1..Len(s) : i < j => Distance[q][s[i]] <= Distance[q][s[j]]}

StoreError == [ok |-> FALSE, rows |-> <<>>]

Answer(coll, ids, q) ==
    [ok |-> TRUE, rows |-> [i \in 1..Len(ids) |-> Row(coll, ids[i], q)]]

\* QuoteDatabase.query_by_text: the possible outcomes of one store query.
\* The index may fail on any query.  For n_results >= 1 it answers with the
\* n_results nearest matching fragments.  n_results is handed to
\* collection.query unchanged, and ChromaDB rejects a query whose n_results
\* is zero or negative: such a call raises.
query_by_text(coll, q, n_results, where) ==
    {StoreError} \cup
    IF n_results >= 1
    THEN {Answer(coll, Take(s, n_results), q) : s \in Rankings(coll, q, where)}
    ELSE {}

---------------------------------------------------------------------------
(* QuoteSelector. *)

OverFetchFactor == 3

\* Python truthiness of an optional list (None and [] are false).
Truthy(opt) == opt # None /\ opt[1] # <<>>

\* Python truthiness of an optional string (None and '' are false).
TruthyStr(opt) == opt # None /\ opt[1] # ""

\* A str passed for a list argument, e.g. themes='df'.
SomeStr(chars) == <<chars, "str">>

\* What `for v in arg` yields: the elements of a list, the one-character
\* strings of a str.
Iterate(opt) ==
    IF Len(opt) = 2 THEN [i \in 1..Len(opt[1]) |-> <<opt[1][i]>>] ELSE opt[1]

\* Plausible bug: the context filter is sent under the argument's name.
build_where_filters_context_type_key(character_type, context_type, chunk_type, formality_level, play_title) ==
    LET given == [context_type |-> context_type, chunk_type |-> chunk_type,
                  formality_level |-> formality_level, play_title |-> play_title]
        keys == {k \in DOMAIN given : TruthyStr(given[k])}
    IN  IF keys = {} THEN None ELSE Some([k \in keys |-> given[k][1]])

\* QuoteSelector._build_where_filters
build_where_filters(character_type, context_type, chunk_type, formality_level, play_title) ==
    LET given == [context |-> context_type, chunk_type |-> chunk_type,
                  formality_level |-> formality_level, play_title |-> play_title]
        keys == {k \in DOMAIN given : TruthyStr(given[k])}
    IN  IF keys = {} THEN None ELSE Some([k \in keys |-> given[k][1]])

\* any(v in values for v in requested)
AnyIn(requested, values) == \E i \in 1..Len(requested) : requested[i] \in Range(values)

\* Plausible bug: the caller-supplied exclusions are ignored.
post_filter_results_session_only(s, results, emotional_tone, themes, exclude_chunk_ids) ==
    LET all_exclusions == UNION {Range(l) : l \in get_exclusion_list(s)}
        Keep(r) ==
            /\ r.chunk_id \notin all_exclusions
            /\ Truthy(emotional_tone) =>
                  AnyIn(Iterate(emotional_tone), Split(Get(r.metadata, "emotional_tone", EmptyString)))
            /\ Truthy(themes) =>
                  AnyIn(Iterate(themes), Split(Get(r.metadata, "themes", EmptyString)))
    IN  SelectSeq(results, Keep)

\* Plausible bug: the session's exclusions are ignored.
post_filter_results_caller_only(s, results, emotional_tone, themes, exclude_chunk_ids) ==
    LET all_exclusions == IF Truthy(exclude_chunk_ids) THEN Range(exclude_chunk_ids[1]) ELSE {}
        Keep(r) ==
            /\ r.chunk_id \notin all_exclusions
            /\ Truthy(emotional_tone) =>
                  AnyIn(Iterate(emotional_tone), Split(Get(r.metadata, "emotional_tone", EmptyString)))
            /\ Truthy(themes) =>
                  AnyIn(Iterate(themes), Split(Get(r.metadata, "themes", EmptyString)))
    IN  SelectSeq(results, Keep)

\* Plausible bug: an empty requested list is a filter nothing passes.
post_filter_results_empty_rejects(s, results, emotional_tone, themes, exclude_chunk_ids) ==
    LET all_exclusions ==
            UNION {Range(l) : l \in get_exclusion_list(s)} \cup
            (IF Truthy(exclude_chunk_ids) THEN Range(exclude_chunk_ids[1]) ELSE {})
        Keep(r) ==
            /\ r.chunk_id \notin all_exclusions
            /\ emotional_tone # None =>
                  AnyIn(Iterate(emotional_tone), Split(Get(r.metadata, "emotional_tone", EmptyString)))
            /\ themes # None =>
                  AnyIn(Iterate(themes), Split(Get(r.metadata, "themes", EmptyString)))
    IN  SelectSeq(results, Keep)

\* QuoteSelector._post_filter_results; the exclusion set is the same
\* whichever order get_exclusion_list lists the ids in.
post_filter_results(s, results, emotional_tone, themes, exclude_chunk_ids) ==
    LET all_exclusions ==
            UNION {Range(l) : l \in get_exclusion_list(s)} \cup
            (IF Truthy(exclude_chunk_ids) THEN Range(exclude_chunk_ids[1]) ELSE {})
        Keep(r) ==
            /\ r.chunk_id \notin all_exclusions
            /\ Truthy(emotional_tone) =>
                  AnyIn(Iterate(emotional_tone), Split(Get(r.metadata, "emotional_tone", EmptyString)))
            /\ Truthy(themes) =>
                  AnyIn(Iterate(themes), Split(Get(r.metadata, "themes", EmptyString)))
    IN  SelectSeq(results, Keep)

\* Plausible bug: the over-fetch grows to four times max_results.
OverFetch_wider(max_results) == max_results * (OverFetchFactor + 1)

\* n_results of the one store query of get_shakespeare_quote.
OverFetch(max_results) == max_results * OverFetchFactor

\* The where argument get_shakespeare_quote passes to the store.
WhereOf(req) ==
    build_where_filters(req.character_type, req.context_type, req.chunk_type,
                        req.formality_level, req.play_title)

\* Plausible bug: a second, larger store query follows the first.
store_queries_refetch(req) ==
    <<[query_text |-> req.semantic_query,
       n_results |-> OverFetch(req.max_results), where |-> WhereOf(req)],
      [query_text |-> req.semantic_query,
       n_results |-> 2 * OverFetch(req.max_results), where |-> WhereOf(req)]>>

\* Plausible bug: a second attempt at the store query.
store_queries_retry(req) ==
    LET query == [query_text |-> req.semantic_query,
                  n_results |-> OverFetch(req.max_results), where |-> WhereOf(req)]
    IN  <<query, query>>

\* The store queries one get_shakespeare_quote call issues, in order: one
\* query_by_text call, whose outcome the call returns from or raises.
store_queries(req) ==
    <<[query_text |-> req.semantic_query,
       n_results |-> OverFetch(req.max_results), where |-> WhereOf(req)]>>

Reverse(s) == [i \in 1..Len(s) |-> s[Len(s) + 1 - i]]

\* Plausible bug: the survivors are returned without the final slice.
get_shakespeare_quote_uncapped(s, req, rows) ==
    post_filter_results(s, rows, req.emotional_tone, req.themes, req.exclude_chunk_ids)

\* Plausible bug: the survivors are returned worst match first.
get_shakespeare_quote_reversed(s, req, rows) ==
    SliceTo(Reverse(post_filter_results(s, rows, req.emotional_tone, req.themes,
                                        req.exclude_chunk_ids)),
            req.max_results)

\* QuoteSelector.get_shakespeare_quote, from the store's answer on:
\* post-filter, then results[:max_results].
get_shakespeare_quote(s, req, rows) ==
    SliceTo(post_filter_results(s, rows, req.emotional_tone, req.themes,
                                req.exclude_chunk_ids),
            req.max_results)

\* The metadata select_and_mark_used records with each returned quote.
QueryContext(semantic_query, r) ==
    Some([query |-> semantic_query, chunk_text |-> r.chunk_text])

RECURSIVE MarkAll(_, _, _, _)
MarkAll(s, results, semantic_query, now) ==
    IF results = <<>> THEN s
    ELSE MarkAll(mark_used(s, results[1].chunk_id, now, QueryContext(semantic_query, results[1])),
                 Tail(results), semantic_query, now)

\* Plausible bug: only the first returned quote is marked.
select_and_mark_used_first_only(s, req, rows, now) ==
    MarkAll(s, Take(get_shakespeare_quote(s, req, rows), 1), req.semantic_query, now)

\* QuoteSelector.select_and_mark_used: the session after the call
\* (the returned list is get_shakespeare_quote's).
select_and_mark_used(s, req, rows, now) ==
    MarkAll(s, get_shakespeare_quote(s, req, rows), req.semantic_query, now)

\* What get_shakespeare_quote leaves of the session: it only reads it.
session_after_get_marks(s, req, rows, now) == select_and_mark_used(s, req, rows, now)

session_after_get(s, req, rows, now) == s

---------------------------------------------------------------------------
(* Inputs of the operations. *)

ToneRequests == {None, Some(<<Melancholy>>)}
ThemeRequests == {None, Some(<<>>), Some(<<Death, Fate>>), Some(<<Death>>), Some(<<EmptyString>>)}
TitleRequests == {None, Some("Hamlet")}
ExcludeRequests == {None, Some(<<"a">>)}
Caps == (0 - MaxNegCap)..MaxCap

\* The keyword arguments of one get_shakespeare_quote call.
Requests ==
    [semantic_query : Queries, character_type : {None}, emotional_tone : ToneRequests,
     themes : ThemeRequests, context_type : {None}, chunk_type : {None},
     formality_level : {None}, play_title : TitleRequests,
     exclude_chunk_ids : ExcludeRequests, max_results : Caps]

\* Requests without metadata filters and with a positive cap.
PlainRequests ==
    {req \in Requests :
        /\ req.emotional_tone = None /\ req.themes = None /\ req.play_title = None
        /\ req.max_results >= 1}

\* Requests whose themes or emotional_tone is a str instead of a list.
InvalidRequests ==
    [semantic_query : Queries, character_type : {None},
     emotional_tone : {None, SomeStr(Melancholy)},
     themes : {SomeStr(Death), SomeStr(<<"d", "f">>)},
     context_type : {None}, chunk_type : {None}, formality_level : {None},
     play_title : {None}, exclude_chunk_ids : {None}, max_results : 1..MaxCap]

\* Requests that filter by character_type.
CharacterRequests ==
    [semantic_query : Queries,
     character_type : {Some(<<"royalty">>), Some(<<"royalty", "commoner">>)},
     emotional_tone : {None}, themes : {None, Some(<<Love>>)},
     context_type : {None}, chunk_type : {None}, formality_level : {None},
     play_title : TitleRequests, exclude_chunk_ids : {None}, max_results : 1..MaxCap]

ArgumentRequests == InvalidRequests \cup CharacterRequests

\* Requests with a positive cap, with or without a tone filter and a title.
WindowRequests ==
    {req \in Requests :
        /\ req.themes = None /\ req.exclude_chunk_ids = None
        /\ req.max_results >= 1}

\* Requests whose emotional_tone or themes may be the empty list.
EmptyListRequests ==
    [semantic_query : Queries, character_type : {None},
     emotional_tone : {None, Some(<<>>), Some(<<Melancholy>>)},
     themes : {None, Some(<<>>), Some(<<Love>>)},
     context_type : {None}, chunk_type : {None}, formality_level : {None},
     play_title : TitleRequests, exclude_chunk_ids : {None}, max_results : 1..MaxCap]

\* Requests with scalar filters: absent, the empty string, or a value.
ScalarRequests ==
    [semantic_query : Queries, character_type : {None},
     emotional_tone : ToneRequests, themes : {None},
     context_type : {None, Some(""), Some("soliloquy")},
     chunk_type : {None, Some("phrase")}, formality_level : {None, Some("high")},
     play_title : {None, Some(""), Some("Hamlet")},
     exclude_chunk_ids : {None}, max_results : 1..MaxCap]

FilterRequests == EmptyListRequests \cup ScalarRequests

\* Chunks as the embeddings generator hands them to add_chunks, and chunks
\* that lack the embedding, the id or the text.
Embedding == PyList(<<1>>)
Embedded(chunk) ==
    [k \in DOMAIN chunk \cup {"embedding"} |->
        IF k = "embedding" THEN Embedding ELSE chunk[k]]
ChunkNoId == [chunk_text |-> PyStr("tx"), embedding |-> Embedding]
ChunkNoText == [chunk_id |-> PyStr("e"), embedding |-> Embedding]
IngestChunks ==
    {Embedded(ChunkA), Embedded(ChunkB), Embedded(ChunkC), ChunkD, ChunkNoId, ChunkNoText}

\* Arguments of add_chunks: lists of up to MaxBatch different chunks.
Batches ==
    {b \in UNION {[1..n -> IngestChunks] : n \in 0..MaxBatch} : NoDuplicates(b)}

\* Arguments of delete_chunks: the empty list, stored ids, an id the
\* collection never holds.
DeleteLists == {<<>>, <<"a">>, <<"a", "b">>, <<"c", "z">>}

\* Ids the holder of a returned exclusion list appends to it.
AppendedIds == {"b", "z"}

\* Arguments of direct mark_used calls.
MarkIds == {"a", "b"}
MarkMetadata == {None, Some(EmptyDict), Some([position |-> "1"])}

\* States of the SessionManager handed to merge_session.
OtherB == mark_used(NewSession("s2"), "b", 0, None)
OtherBC == mark_used(OtherB, "c", 0, Some([position |-> "2"]))
OtherSessions == {NewSession("s2"), OtherB, OtherBC}

\* Session files that save_session did not write and load_session accepts:
\* one without usage_history, one without session_id.
FileNoHistory ==
    JsonObject([session_id |-> JsonString("s2"),
                used_chunk_ids |-> JsonArray(<<JsonString("a")>>),
                usage_count |-> JsonNumber(1)])
FileNoSessionId ==
    JsonObject([used_chunk_ids |-> JsonArray(<<JsonString("b")>>),
                usage_history |-> JsonArray(<<json_dump_record(UsageRecord("b", 0, None))>>),
                usage_count |-> JsonNumber(1)])
\* Session files whose used_chunk_ids is a string.
FileUsedString ==
    JsonObject([session_id |-> JsonString("s2"), used_chunk_ids |-> JsonString("ab"),
                usage_history |-> JsonArray(<<>>)])
FileUsedEmptyString ==
    JsonObject([used_chunk_ids |-> JsonString(""), usage_history |-> JsonArray(<<>>)])
ForeignFiles == {FileNoHistory, FileNoSessionId, FileUsedString, FileUsedEmptyString}

\* A session file as save_session writes it.
FileSaved == json_dump(save_session(OtherBC, <<"b", "c">>))

\* Malformed session files: text that is not JSON, a top-level array, a
\* used_chunk_ids that is a number, a used_chunk_ids holding a list.
FileNotJson == JsonInvalid
FileTopLevelArray == JsonArray(<<JsonString("a")>>)
FileUsedNotIterable ==
    JsonObject([session_id |-> JsonString("s2"), used_chunk_ids |-> JsonNumber(5),
                usage_history |-> JsonArray(<<>>)])
FileUsedUnhashable ==
    JsonObject([used_chunk_ids |-> JsonArray(<<JsonArray(<<JsonString("a")>>)>>),
                usage_history |-> JsonArray(<<>>)])
MalformedFiles == {FileNotJson, FileTopLevelArray, FileUsedNotIterable, FileUsedUnhashable}

SessionFiles == {FileSaved} \cup ForeignFiles \cup MalformedFiles

Ids(rows) == [i \in 1..Len(rows) |-> rows[i].chunk_id]

Done(name, ok) == [name |-> name, ok |-> ok]

Idle == call = None

---------------------------------------------------------------------------
(* SceneGenerator.generate_scene: the conversation loop. *)

\* The one tool the generator defines and executes.
QuoteTool == "get_shakespeare_quote"

\* No generate_scene call has been made.
NoScene ==
    [pc |-> "idle", max_turns |-> 0, target_length |-> 0,
     turn_count |-> 0, llm_calls |-> 0, tool_calls |-> 0,
     messages |-> <<>>, pending |-> <<>>, tool_results |-> <<>>, report |-> None]

\* Messages of the conversation: role, what the content is, the tool_use
\* blocks of an assistant message, the tool_use_ids of a tool-result message.
RequestMessage == [role |-> "user", kind |-> "request", blocks |-> <<>>, ids |-> <<>>]

ContinueMessage == [role |-> "user", kind |-> "continue", blocks |-> <<>>, ids |-> <<>>]

AssistantMessage(blocks) ==
    [role |-> "assistant", kind |-> IF blocks # <<>> THEN "tool_use" ELSE "text",
     blocks |-> [i \in 1..Len(blocks) |-> [id |-> blocks[i].id, name |-> blocks[i].name]],
     ids |-> <<>>]

\* Plausible bug: one user message per tool result.
tool_result_messages_each(tool_results) ==
    [i \in 1..Len(tool_results) |->
        [role |-> "user", kind |-> "tool_results", blocks |-> <<>>, ids |-> <<tool_results[i]>>]]

\* messages.append({"role": "user", "content": tool_results})
tool_result_messages(tool_results) ==
    <<[role |-> "user", kind |-> "tool_results", blocks |-> <<>>, ids |-> tool_results]>>

\* The tool inputs the model may send: keyword arguments of
\* select_and_mark_used, absent ones at their default None.
ToolInput(q, tone, n) ==
    [semantic_query |-> q, character_type |-> None, emotional_tone |-> tone,
     themes |-> None, context_type |-> None, chunk_type |-> None,
     formality_level |-> None, play_title |-> None, exclude_chunk_ids |-> None,
     max_results |-> n]

ToolInputs ==
    {ToolInput("q1", None, 1), ToolInput("q2", Some(<<Melancholy>>), 1),
     ToolInput("q2", None, 2)}

\* tool_use blocks of a response: the quote tool with an input, or a tool
\* name the generator does not execute.
QuoteBlock(r) == [name |-> QuoteTool, input |-> Some(r)]

OtherBlock == [name |-> "other_tool", input |-> None]

\* The tool_use blocks of one response: one block or a pair.
ToolUseLists ==
    {<<QuoteBlock(r)>> : r \in ToolInputs} \cup {<<OtherBlock>>} \cup
    {<<QuoteBlock(r1), QuoteBlock(r2)>> : r1 \in ToolInputs, r2 \in ToolInputs} \cup
    {<<OtherBlock, QuoteBlock(r)>> : r \in ToolInputs} \cup
    {<<QuoteBlock(r), OtherBlock>> : r \in ToolInputs}

\* What messages.create may return: text blocks (none, text without or with
\* the completion signal) and tool_use blocks.
Responses ==
    [text : {"none", "plain", "SCENE COMPLETE"}, tool_uses : {<<>>}] \cup
    [text : {"none", "SCENE COMPLETE"}, tool_uses : ToolUseLists]

\* The tool_use blocks of the response of a turn, with their ids.
tool_uses(resp, turn) ==
    [i \in 1..Len(resp.tool_uses) |->
        [id |-> <<turn, i>>, name |-> resp.tool_uses[i].name,
         input |-> resp.tool_uses[i].input]]

\* Plausible bug: the loop admits one turn more.
loop_guard_inclusive(turn_count, max_turns) == turn_count <= max_turns

\* while turn_count < max_turns
loop_guard(turn_count, max_turns) == turn_count < max_turns

\* "SCENE COMPLETE" in final_text or len(scene_speeches) >= target_length;
\* scene_speeches is never appended to.
scene_complete(text, target_length) == text = "SCENE COMPLETE" \/ 0 >= target_length

\* if turn_count < max_turns, after a text-only response that is not final
may_continue(turn_count, max_turns) == turn_count < max_turns

\* Plausible bug: the scene starts on the session as the last scene left it.
scene_start_session_kept(s) == s

\* self.session_manager.reset() at the start of generate_scene
scene_start_session(s) == reset(s)

\* The part of generate_scene's return value that reports on the run, for
\* each list get_exclusion_list may return.
scene_report(s, turn_count) ==
    {[quotes_used |-> Len(l), session_id |-> s.session_id, turn_count |-> turn_count] :
        l \in get_exclusion_list(s)}

SceneMaxTurns == (0 - 1)..MaxTurns
SceneTargetLengths == {0, 1}

Running == scene.pc \in {"llm", "tools", "return"}

---------------------------------------------------------------------------
(* The state machine. *)

Init ==
    /\ session = NewSession("s1")
    /\ other = NewSession("s2")
    /\ disk = None
    /\ clock = 0
    /\ op = Done("init", TRUE)
    /\ call = None
    /\ answer = None
    /\ result = None
    /\ returned = <<>>
    /\ retired = {}
    /\ saved = None
    /\ queries = <<>>
    /\ collection = LoadedCollection
    /\ batch = None
    /\ snapshot = None
    /\ scene = NoScene

\* selector.get_shakespeare_quote(**req): one store query, then the filter.
GetQuote(R) ==
    /\ Idle
    /\ \E req \in R :
       LET issued == store_queries(req)
           query == issued[Len(issued)]
       IN
       \E out \in query_by_text(collection, query.query_text, query.n_results, query.where) :
          /\ call' = Some(req)
          /\ queries' = issued
          /\ answer' = Some(out)
          /\ op' = Done("get_shakespeare_quote", out.ok)
          /\ IF out.ok
             THEN /\ result' = Some(get_shakespeare_quote(session, req, out.rows))
                  /\ session' = session_after_get(session, req, out.rows, clock)
             ELSE /\ result' = None
                  /\ session' = session
    /\ UNCHANGED <<other, disk, clock, returned, retired, saved, collection, batch, snapshot, scene>>

\* The body of selector.select_and_mark_used(**req): one store query, the
\* filter, then mark_used for every returned fragment.
SelectCall(R) ==
    \E req \in R :
       LET issued == store_queries(req)
           query == issued[Len(issued)]
       IN
       \E out \in query_by_text(collection, query.query_text, query.n_results, query.where) :
          /\ call' = Some(req)
          /\ queries' = issued
          /\ answer' = Some(out)
          /\ op' = Done("select_and_mark_used", out.ok)
          /\ IF out.ok
             THEN LET res == get_shakespeare_quote(session, req, out.rows)
                  IN  /\ Len(session.usage_history) + Len(res) <= MaxHistory
                      /\ result' = Some(res)
                      /\ session' = select_and_mark_used(session, req, out.rows, clock)
                      /\ returned' = returned \o Ids(res)
             ELSE /\ result' = None
                  /\ session' = session
                  /\ returned' = returned

\* selector.select_and_mark_used(**req) by a caller of the selector.
SelectAndMarkUsed(R) ==
    /\ Idle
    /\ SelectCall(R)
    /\ UNCHANGED <<other, disk, clock, retired, saved, collection, batch, snapshot, scene>>

\* The caller takes the returned list; the selector is ready for the next call.
Return ==
    /\ ~Idle
    /\ call' = None
    /\ answer' = None
    /\ result' = None
    /\ queries' = <<>>
    /\ op' = Done("return", TRUE)
    /\ UNCHANGED <<session, other, disk, clock, returned, retired,
                   saved, collection, batch, snapshot, scene>>

\* session.reset(), as generate_scene runs it at the start of a scene.
\* With track, the history variable retired records the ids in use.
Reset(track) ==
    /\ Idle
    /\ session' = reset(session)
    /\ retired' = IF track THEN retired \cup session.used_chunk_ids ELSE retired
    /\ returned' = <<>>
    /\ snapshot' \in SnapshotAfter(snapshot, session')
    /\ op' = Done("reset", TRUE)
    /\ UNCHANGED <<other, disk, clock, call, answer, result,
                   saved, queries, collection, batch, scene>>

Next ==
    \/ GetQuote(Requests)
    \/ SelectAndMarkUsed(Requests)
    \/ Return
    \/ Reset(FALSE)

Spec == Init /\ [][Next]_vars

\* The same machine on unfiltered requests, with the resets tracked.
NextReset ==
    \/ GetQuote(PlainRequests)
    \/ SelectAndMarkUsed(PlainRequests)
    \/ Return
    \/ Reset(TRUE)

SpecReset == Init /\ [][NextReset]_vars

\* The same machine on requests with ill-typed filters and with
\* character_type filters.
NextArguments ==
    \/ GetQuote(ArgumentRequests)
    \/ SelectAndMarkUsed(ArgumentRequests)
    \/ Return
    \/ Reset(FALSE)

SpecArguments == Init /\ [][NextArguments]_vars

\* The same machine on requests with a positive cap and no caller exclusions.
NextWindow ==
    \/ GetQuote(WindowRequests)
    \/ SelectAndMarkUsed(WindowRequests)
    \/ Return
    \/ Reset(FALSE)

SpecWindow == Init /\ [][NextWindow]_vars

\* The same machine on requests with empty-list filters and scalar filters.
NextFilters ==
    \/ GetQuote(FilterRequests)
    \/ SelectAndMarkUsed(FilterRequests)
    \/ Return
    \/ Reset(FALSE)

SpecFilters == Init /\ [][NextFilters]_vars

\* session.mark_used(chunk_id, metadata) by a caller.
MarkUsed ==
    /\ Idle
    /\ Len(session.usage_history) < MaxHistory
    /\ \E chunk_id \in MarkIds, metadata \in MarkMetadata :
          session' = mark_used(session, chunk_id, clock, metadata)
    /\ snapshot' \in SnapshotAfter(snapshot, session')
    /\ op' = Done("mark_used", TRUE)
    /\ UNCHANGED <<other, disk, clock, call, answer, result, returned, retired,
                   saved, queries, collection, batch, scene>>

\* session.merge_session(other)
MergeSession ==
    /\ Idle
    /\ Len(session.usage_history) + Len(other.usage_history) <= MaxHistory
    /\ session' = merge_session(session, other)
    /\ op' = Done("merge_session", TRUE)
    /\ UNCHANGED <<other, disk, clock, call, answer, result, returned, retired,
                   saved, queries, collection, batch, snapshot, scene>>

\* session.save_session(path); the set is listed in some order.
SaveSession ==
    /\ Idle
    /\ \E used_list \in get_exclusion_list(session) :
          disk' = Some(json_dump(save_session(session, used_list)))
    /\ saved' = Some(session)
    /\ op' = Done("save_session", TRUE)
    /\ UNCHANGED <<session, other, clock, call, answer, result, returned, retired,
                   queries, collection, batch, snapshot, scene>>

\* session.load_session(path); open() raises when there is no file.
LoadSession ==
    /\ Idle
    /\ IF disk = None
       THEN /\ op' = Done("load_session", FALSE)
            /\ UNCHANGED <<session, returned>>
       ELSE LET out == load_session(session, disk[1])
            IN  /\ session' = out.session
                /\ returned' = IF out.ok THEN <<>> ELSE returned
                /\ op' = Done("load_session", out.ok)
    /\ UNCHANGED <<other, disk, clock, call, answer, result, retired,
                   saved, queries, collection, batch, snapshot, scene>>

\* Time passes between two operations.
Tick ==
    /\ Idle
    /\ clock < MaxClock
    /\ clock' = clock + 1
    /\ op' = Done("tick", TRUE)
    /\ UNCHANGED <<session, other, disk, call, answer, result, returned, retired,
                   saved, queries, collection, batch, snapshot, scene>>

\* The tracker's operations in memory, with any of the other sessions.
InitSession ==
    /\ session = NewSession("s1")
    /\ other \in OtherSessions
    /\ disk = None
    /\ clock = 0
    /\ op = Done("init", TRUE)
    /\ call = None
    /\ answer = None
    /\ result = None
    /\ returned = <<>>
    /\ retired = {}
    /\ saved = None
    /\ queries = <<>>
    /\ collection = LoadedCollection
    /\ batch = None
    /\ snapshot = None
    /\ scene = NoScene

NextSession ==
    \/ MarkUsed
    \/ Reset(FALSE)
    \/ MergeSession
    \/ Tick

SpecSession == InitSession /\ [][NextSession]_vars

\* Saving and loading a session in use, starting with any of the session
\* files.
InitLoad ==
    /\ session = NewSession("s1")
    /\ other = NewSession("s2")
    /\ disk \in {None} \cup {Some(f) : f \in SessionFiles}
    /\ clock = 0
    /\ op = Done("init", TRUE)
    /\ call = None
    /\ answer = None
    /\ result = None
    /\ returned = <<>>
    /\ retired = {}
    /\ saved = None
    /\ queries = <<>>
    /\ collection = LoadedCollection
    /\ batch = None
    /\ snapshot = None
    /\ scene = NoScene

NextLoad ==
    \/ MarkUsed
    \/ SaveSession
    \/ LoadSession

SpecLoad == InitLoad /\ [][NextLoad]_vars

\* database.add_chunks(chunks)
AddChunks ==
    /\ Idle
    /\ \E chunks \in Batches :
       \E out \in add_chunks(collection, chunks) :
          /\ collection' = out.collection
          /\ batch' = Some(chunks)
          /\ op' = Done("add_chunks", out.ok)
    /\ UNCHANGED <<session, other, disk, clock, call, answer, result, returned, retired,
                   saved, queries, snapshot, scene>>

\* database.delete_chunks(chunk_ids)
DeleteChunks ==
    /\ Idle
    /\ \E chunk_ids \in DeleteLists :
       \E out \in delete_chunks(collection, chunk_ids) :
          /\ collection' = out.collection
          /\ op' = Done("delete_chunks", out.ok)
    /\ UNCHANGED <<session, other, disk, clock, call, answer, result, returned, retired,
                   saved, queries, batch, snapshot, scene>>

\* database.reset()
DatabaseReset ==
    /\ Idle
    /\ \E out \in database_reset(collection) :
          /\ collection' = out.collection
          /\ op' = Done("database_reset", out.ok)
    /\ UNCHANGED <<session, other, disk, clock, call, answer, result, returned, retired,
                   saved, queries, batch, snapshot, scene>>

\* Ingestion into a collection that has just been created.
InitIngest ==
    /\ session = NewSession("s1")
    /\ other = NewSession("s2")
    /\ disk = None
    /\ clock = 0
    /\ op = Done("init", TRUE)
    /\ call = None
    /\ answer = None
    /\ result = None
    /\ returned = <<>>
    /\ retired = {}
    /\ saved = None
    /\ queries = <<>>
    /\ collection = EmptyCollection
    /\ batch = None
    /\ snapshot = None
    /\ scene = NoScene

NextIngest ==
    \/ AddChunks
    \/ DeleteChunks
    \/ DatabaseReset

SpecIngest == InitIngest /\ [][NextIngest]_vars

\* exclusions = session.get_exclusion_list()
GetExclusionList ==
    /\ Idle
    /\ \E l \in get_exclusion_list(session) : snapshot' = Some(returned_list(l))
    /\ op' = Done("get_exclusion_list", TRUE)
    /\ UNCHANGED <<session, other, disk, clock, call, answer, result, returned, retired,
                   saved, queries, collection, batch, scene>>

\* The caller changes the list it holds: exclusions.append(id) or
\* exclusions.pop(0).  A live list is the tracker's collection itself.
MutateSnapshot ==
    /\ Idle
    /\ snapshot # None
    /\ \/ \E id \in AppendedIds :
             /\ Len(snapshot[1].items) < MaxSnapshot
             /\ snapshot' = Some([snapshot[1] EXCEPT !.items = Append(@, id)])
             /\ session' = IF snapshot[1].live
                           THEN [session EXCEPT !.used_chunk_ids = @ \cup {id}]
                           ELSE session
       \/ /\ snapshot[1].items # <<>>
          /\ snapshot' = Some([snapshot[1] EXCEPT !.items = Tail(@)])
          /\ session' = IF snapshot[1].live
                        THEN [session EXCEPT !.used_chunk_ids = @ \ {Head(snapshot[1].items)}]
                        ELSE session
    /\ op' = Done("mutate_snapshot", TRUE)
    /\ UNCHANGED <<other, disk, clock, call, answer, result, returned, retired,
                   saved, queries, collection, batch, scene>>

\* The tracker and a caller that keeps the exclusion list it was given.
NextSnapshot ==
    \/ MarkUsed
    \/ Reset(FALSE)
    \/ GetExclusionList
    \/ MutateSnapshot

SpecSnapshot == Init /\ [][NextSnapshot]_vars

\* The id a SessionManager built without session_id gives itself.
\* fresh = SessionManager(); fresh.load_session(path): the file is loaded
\* into a tracker that has just been built.
LoadFresh ==
    /\ Idle
    /\ disk # None
    /\ LET out == load_session(NewSession(""), disk[1])
       IN  /\ other' = out.session
           /\ op' = Done("load_fresh", out.ok)
    /\ UNCHANGED <<session, disk, clock, call, answer, result, returned, retired,
                   saved, queries, collection, batch, snapshot, scene>>

\* Saving a session and loading the file into fresh trackers.
NextPersist ==
    \/ MarkUsed
    \/ SaveSession
    \/ LoadFresh

SpecPersist == Init /\ [][NextPersist]_vars

\* generate_scene(...) is called: session reset, first user message.
GenerateScene ==
    /\ ~Running
    /\ \E max_turns \in SceneMaxTurns, target_length \in SceneTargetLengths :
          scene' = [NoScene EXCEPT !.pc = "llm", !.max_turns = max_turns,
                                   !.target_length = target_length,
                                   !.messages = <<RequestMessage>>]
    /\ session' = scene_start_session(session)
    /\ retired' = retired \cup session.used_chunk_ids
    /\ returned' = <<>>
    /\ snapshot' \in SnapshotAfter(snapshot, session')
    /\ call' = None
    /\ answer' = None
    /\ result' = None
    /\ queries' = <<>>
    /\ op' = Done("generate_scene", TRUE)
    /\ UNCHANGED <<other, disk, clock, saved, collection, batch>>

\* One turn of the loop up to the tool calls: the guard, the LLM call, the
\* assistant message, and for a response without tool_use blocks the
\* completion test and the continuation prompt.
LlmCall ==
    /\ scene.pc = "llm"
    /\ loop_guard(scene.turn_count, scene.max_turns)
    /\ \E resp \in Responses :
          LET turn == scene.turn_count + 1
              blocks == tool_uses(resp, turn)
              called == [scene EXCEPT !.turn_count = turn, !.llm_calls = @ + 1,
                                      !.messages = Append(@, AssistantMessage(blocks))]
          IN  scene' =
                  IF blocks # <<>>
                  THEN [called EXCEPT !.pc = "tools", !.pending = blocks,
                                      !.tool_results = <<>>]
                  ELSE IF scene_complete(resp.text, scene.target_length)
                  THEN [called EXCEPT !.pc = "return"]
                  ELSE IF may_continue(turn, scene.max_turns)
                  THEN [called EXCEPT !.messages = Append(@, ContinueMessage)]
                  ELSE called
    /\ op' = Done("llm", TRUE)
    /\ UNCHANGED <<session, other, disk, clock, call, answer, result, returned, retired,
                   saved, queries, collection, batch, snapshot>>

\* messages.create raises: generate_scene raises with it.
LlmRaises ==
    /\ scene.pc = "llm"
    /\ loop_guard(scene.turn_count, scene.max_turns)
    /\ scene' = [scene EXCEPT !.turn_count = @ + 1, !.llm_calls = @ + 1, !.pc = "raised"]
    /\ op' = Done("llm", FALSE)
    /\ UNCHANGED <<session, other, disk, clock, call, answer, result, returned, retired,
                   saved, queries, collection, batch, snapshot>>

\* The next tool_use block names the quote tool: select_and_mark_used with
\* its input, then the tool_result; a store failure leaves generate_scene.
ExecTool ==
    /\ scene.pc = "tools"
    /\ scene.pending # <<>>
    /\ Head(scene.pending).name = QuoteTool
    /\ SelectCall({Head(scene.pending).input[1]})
    /\ scene' = IF op'.ok
                THEN [scene EXCEPT !.pending = Tail(@), !.tool_calls = @ + 1,
                                   !.tool_results = Append(@, Head(scene.pending).id)]
                ELSE [scene EXCEPT !.pc = "raised", !.tool_calls = @ + 1]
    /\ UNCHANGED <<other, disk, clock, retired, saved, collection, batch, snapshot>>

\* The next tool_use block names another tool: nothing is run or answered.
SkipTool ==
    /\ scene.pc = "tools"
    /\ scene.pending # <<>>
    /\ Head(scene.pending).name # QuoteTool
    /\ scene' = [scene EXCEPT !.pending = Tail(@)]
    /\ op' = Done("skip_tool", TRUE)
    /\ UNCHANGED <<session, other, disk, clock, call, answer, result, returned, retired,
                   saved, queries, collection, batch, snapshot>>

\* After the last tool_use block: the tool results go back as a user message.
AppendToolResults ==
    /\ scene.pc = "tools"
    /\ scene.pending = <<>>
    /\ scene' = [scene EXCEPT !.pc = "llm",
                              !.messages = @ \o tool_result_messages(scene.tool_results),
                              !.tool_results = <<>>]
    /\ call' = None
    /\ answer' = None
    /\ result' = None
    /\ queries' = <<>>
    /\ op' = Done("tool_results", TRUE)
    /\ UNCHANGED <<session, other, disk, clock, returned, retired,
                   saved, collection, batch, snapshot>>

\* The loop is left, by its guard or by break: generate_scene returns.
ReturnScene ==
    /\ \/ scene.pc = "return"
       \/ scene.pc = "llm" /\ ~loop_guard(scene.turn_count, scene.max_turns)
    /\ \E report \in scene_report(session, scene.turn_count) :
          scene' = [scene EXCEPT !.pc = "done", !.report = Some(report)]
    /\ op' = Done("generate_scene", TRUE)
    /\ UNCHANGED <<session, other, disk, clock, call, answer, result, returned, retired,
                   saved, queries, collection, batch, snapshot>>

\* Scenes generated one after the other by one SceneGenerator.
NextScene ==
    \/ GenerateScene
    \/ LlmCall
    \/ LlmRaises
    \/ ExecTool
    \/ SkipTool
    \/ AppendToolResults
    \/ ReturnScene

SpecScene == Init /\ [][NextScene]_vars

---------------------------------------------------------------------------
(* Vocabulary of the properties. *)

GetReturned == op.name = "get_shakespeare_quote" /\ op.ok
SelectReturned == op.name = "select_and_mark_used" /\ op.ok

\* The caller-supplied exclusions of a request, as a set.
ExcludedBy(req) ==
    IF req.exclude_chunk_ids = None THEN {} ELSE Range(req.exclude_chunk_ids[1])

\* The values a chunk had for a multi-valued field at ingestion.
ValuesOf(id, field) ==
    LET chunk == CHOOSE c \in Chunks : c.chunk_id.value = id
    IN  IF field \in DOMAIN chunk THEN Range(chunk[field].value) ELSE {}

\* OR within a field by whole-value equality; an empty or absent request
\* does not filter.
PassesField(id, field, requested) ==
    (requested = None \/ requested[1] = <<>>) \/
    \E v \in Range(requested[1]) : v \in ValuesOf(id, field)

---------------------------------------------------------------------------
(* Properties. *)

\* C1: between two resets no chunk id is returned twice by
\* select_and_mark_used, neither by two calls nor within one call.
C1_NoRepeatWithinSession == NoDuplicates(returned)

\* C1 witness: a second committing call has returned a quote after an
\* earlier one did.
C1_Witness ==
    /\ SelectReturned
    /\ Len(result[1]) >= 1
    /\ Len(returned) > Len(result[1])

\* C3: get_shakespeare_quote never returns more than max_results results,
\* whatever the store answers and whatever max_results is; a call that
\* returns with a negative max_results would have to return nothing (the
\* store rejects the query of a call with max_results <= 0, which raises).
C3_CapRespected ==
    GetReturned =>
        Len(result[1]) <= (IF call[1].max_results < 0 THEN 0 ELSE call[1].max_results)

\* C4: no returned id is in the session's used set or in exclude_chunk_ids.
C4_Exclusion ==
    GetReturned =>
        Range(Ids(result[1])) \cap (session.used_chunk_ids \cup ExcludedBy(call[1])) = {}

\* C4 witness: the store offered a used id and a caller-excluded id that is
\* not used, and the call still returned something.
C4_Witness ==
    /\ GetReturned
    /\ result[1] # <<>>
    /\ \E i, j \in 1..Len(answer[1].rows) :
          /\ answer[1].rows[i].chunk_id \in session.used_chunk_ids
          /\ answer[1].rows[j].chunk_id \in ExcludedBy(call[1]) \ session.used_chunk_ids

\* C5: a candidate that is not excluded survives the post-filter exactly when
\* every requested field has a requested value equal to one of the fragment's
\* values.
C5_PostFilterSemantics ==
    GetReturned =>
        LET req == call[1]
            rows == answer[1].rows
            kept == Range(Ids(post_filter_results(session, rows, req.emotional_tone,
                                                  req.themes, req.exclude_chunk_ids)))
        IN  \A i \in 1..Len(rows) :
               rows[i].chunk_id \notin session.used_chunk_ids \cup ExcludedBy(req) =>
                  (rows[i].chunk_id \in kept <=>
                      /\ PassesField(rows[i].chunk_id, "emotional_tone", req.emotional_tone)
                      /\ PassesField(rows[i].chunk_id, "themes", req.themes))

\* C6: the returned list is a subsequence of the store's answer and is
\* non-decreasing in distance.
C6_OrderPreserved ==
    GetReturned =>
        /\ IsSubsequence(result[1], answer[1].rows)
        /\ \A i, j \in 1..Len(result[1]) :
              i < j => result[1][i].distance <= result[1][j].distance

\* C6 witness: two results at different distances, returned from an answer
\* whose first candidate was dropped.
C6_Witness ==
    /\ GetReturned
    /\ Len(result[1]) >= 2
    /\ result[1][1].distance < result[1][2].distance
    /\ answer[1].rows[1] # result[1][1]

\* The first n candidates of rows that are not in excluded.
FirstEligible(rows, excluded, n) ==
    LET Eligible(r) == r.chunk_id \notin excluded IN Take(SelectSeq(rows, Eligible), n)

\* C7: an id used before a reset, not marked since and not excluded by the
\* caller, is returned whenever it is among the first max_results eligible
\* candidates of an unfiltered query.
C7_EligibleAfterReset ==
    GetReturned =>
        \A id \in (retired \ Range(returned)) \ ExcludedBy(call[1]) :
            id \in Range(Ids(FirstEligible(answer[1].rows,
                                           Range(returned) \cup ExcludedBy(call[1]),
                                           call[1].max_results)))
            => id \in Range(Ids(result[1]))

\* C7 witness: a query returned an id that was used before a reset.
C7_Witness ==
    /\ GetReturned
    /\ \E id \in retired : id \in Range(Ids(result[1]))

\* C8: select_and_mark_used adds exactly the returned ids to the used set and
\* appends one history entry per returned result, in returned order, each
\* carrying the query.
C8_CommitMarksReturned ==
    [][(op'.name = "select_and_mark_used" /\ op'.ok) =>
        LET R == result'[1]
            old == session.usage_history
            new == session'.usage_history
        IN  /\ session'.used_chunk_ids = session.used_chunk_ids \cup Range(Ids(R))
            /\ Len(new) = Len(old) + Len(R)
            /\ SubSeq(new, 1, Len(old)) = old
            /\ \A i \in 1..Len(R) :
                  /\ new[Len(old) + i].chunk_id = R[i].chunk_id
                  /\ new[Len(old) + i].metadata.query = call'[1].semantic_query
    ]_vars

\* C8 witness: a committing call returned two quotes.
C8_Witness == SelectReturned /\ Len(result[1]) = 2

\* C9: get_shakespeare_quote leaves the session unchanged, whether it returns
\* or raises.
C9_RetrieveReadOnly == [][op'.name = "get_shakespeare_quote" => session' = session]_vars

\* C9 witness: get_shakespeare_quote returned a quote on a session with history.
C9_Witness ==
    /\ GetReturned
    /\ result[1] # <<>>
    /\ session.usage_history # <<>>

\* The distinct chunk ids of a usage history.
HistoryIds(s) == {s.usage_history[i].chunk_id : i \in 1..Len(s.usage_history)}

\* C2: used_chunk_ids is exactly the set of chunk ids in usage_history.
C2_UsedEqualsHistoryIds == session.used_chunk_ids = HistoryIds(session)

\* C10: mark_used appends exactly one history entry for its id and leaves
\* the earlier entries in place, also when the id is already used, and the
\* used set gains that id and nothing else.
C10_MarkUsedAppends ==
    [][op'.name = "mark_used" =>
        LET old == session.usage_history
            new == session'.usage_history
        IN  /\ Len(new) = Len(old) + 1
            /\ SubSeq(new, 1, Len(old)) = old
            /\ session'.used_chunk_ids = session.used_chunk_ids \cup {new[Len(new)].chunk_id}
            /\ new[Len(new)].metadata \in {MetadataOrEmpty(m) : m \in MarkMetadata}
    ]_vars

\* C10 witness: the same id was marked twice in a row; it is in the set once
\* and in the history twice.
C10_Witness ==
    /\ op.name = "mark_used"
    /\ Len(session.usage_history) >= 2
    /\ LET h == session.usage_history
       IN  /\ h[Len(h)].chunk_id = h[Len(h) - 1].chunk_id
           /\ h[Len(h)].chunk_id \in session.used_chunk_ids

\* C11: save_session followed by load_session of that file into a fresh
\* SessionManager gives the used set and the usage history the session had
\* when it was saved, entries and order included.
C11_RoundTrip ==
    (op.name = "load_fresh" /\ saved # None) =>
        /\ op.ok
        /\ other.used_chunk_ids = saved[1].used_chunk_ids
        /\ other.usage_history = saved[1].usage_history

\* C11 witness: a fresh tracker loaded a saved history in which one id occurs
\* twice, with and without metadata.
C11_Witness ==
    /\ op.name = "load_fresh" /\ saved # None
    /\ Len(other.usage_history) = 2
    /\ other.usage_history[1].chunk_id = other.usage_history[2].chunk_id
    /\ other.usage_history[1].metadata # other.usage_history[2].metadata

\* C12: merge_session(other) makes used_chunk_ids the union of both used
\* sets and usage_history the old history followed by other's history in
\* other's order, nothing collapsed or re-sorted; other is left as it was.
C12_MergeUnionAndConcat ==
    [][op'.name = "merge_session" =>
        /\ session'.used_chunk_ids = session.used_chunk_ids \cup other.used_chunk_ids
        /\ session'.usage_history = session.usage_history \o other.usage_history
        /\ Len(session'.usage_history) =
              Len(session.usage_history) + Len(other.usage_history)
        /\ session'.session_id = session.session_id
        /\ other' = other
    ]_vars

\* C12 witness: a merge appended an entry for an id this session had already
\* used, recorded earlier than this session's own entry.
C12_Witness ==
    /\ op.name = "merge_session"
    /\ Len(session.usage_history) = 2
    /\ session.usage_history[1].chunk_id = session.usage_history[2].chunk_id
    /\ session.usage_history[1].timestamp > session.usage_history[2].timestamp
    /\ other.usage_history = <<session.usage_history[2]>>
    /\ session.used_chunk_ids = other.used_chunk_ids

\* The ids and the history a session file holds, absent fields being empty.
FileUsedIds(text) ==
    IF "used_chunk_ids" \notin DOMAIN text.value THEN {}
    ELSE LET used == text.value.used_chunk_ids
         IN  IF used.type = "string"
             THEN {c \in Alphabet : \E i \in 1..Len(Chars(used.value)) :
                                       Chars(used.value)[i] = c}
             ELSE {used.value[i].value : i \in 1..Len(used.value)}
FileHistory(text) ==
    IF "usage_history" \in DOMAIN text.value
    THEN [i \in 1..Len(text.value.usage_history.value) |->
             LET entry == text.value.usage_history.value[i].value
             IN  [chunk_id |-> entry.chunk_id.value,
                  timestamp |-> entry.timestamp.value,
                  metadata |-> [k \in DOMAIN entry.metadata.value |->
                                   entry.metadata.value[k].value]]]
    ELSE <<>>

\* C13: a load_session that returns leaves exactly the file's used ids and
\* the file's history, nothing of the session's own, and the file's
\* session_id, or the session's own id when the file has none.
C13_LoadReplaces ==
    [][(op'.name = "load_session" /\ op'.ok) =>
        /\ session'.used_chunk_ids = FileUsedIds(disk[1])
        /\ session'.usage_history = FileHistory(disk[1])
        /\ session'.session_id =
              IF "session_id" \in DOMAIN disk[1].value
              THEN disk[1].value.session_id.value ELSE session.session_id
    ]_vars

\* C13 witness: a file without session_id was loaded; the session kept its
\* id and holds the file's one id and one entry.
C13_Witness ==
    /\ op.name = "load_session" /\ op.ok
    /\ disk = Some(FileNoSessionId)
    /\ session.session_id = "s1"
    /\ session.used_chunk_ids = {"b"}
    /\ Len(session.usage_history) = 1

\* C14: a load_session that raises leaves session_id, used_chunk_ids and
\* usage_history as they were before the call.
C14_FailedLoadUntouched ==
    [][(op'.name = "load_session" /\ ~op'.ok) => session' = session]_vars

\* A post-filter field of the request holds a value that is not a list.
InvalidFilter(req) == Len(req.emotional_tone) = 2 \/ Len(req.themes) = 2

\* C15: get_shakespeare_quote with a non-list emotional_tone or themes fails
\* and issues no store query.
C15_InvalidFilterRejected ==
    (op.name = "get_shakespeare_quote" /\ InvalidFilter(call[1])) =>
        ~op.ok /\ queries = <<>>

\* C18: when character_type is supplied, every returned fragment has a
\* character_type that is one of the requested values.
C18_CharacterTypeFiltered ==
    (GetReturned /\ Truthy(call[1].character_type)) =>
        \A i \in 1..Len(result[1]) :
            /\ "character_type" \in DOMAIN result[1][i].metadata
            /\ \E j \in 1..Len(call[1].character_type[1]) :
                  call[1].character_type[1][j] = result[1][i].metadata.character_type

\* C17: when the store query raises in get_shakespeare_quote or in
\* select_and_mark_used, the call raises after exactly one store query and
\* the session is as it was before the call.
C17_StoreFailurePropagates ==
    [][(op'.name \in {"get_shakespeare_quote", "select_and_mark_used"} /\ ~answer'[1].ok) =>
        /\ ~op'.ok
        /\ result' = None
        /\ Len(queries') = 1
        /\ session' = session
        /\ returned' = returned
    ]_vars

\* C17 witness: select_and_mark_used raised on a store failure in a session
\* that had already used a quote.
C17_Witness ==
    /\ op.name = "select_and_mark_used" /\ ~op.ok
    /\ ~answer[1].ok
    /\ Len(queries) = 1
    /\ session.usage_history # <<>>

\* A chunk of the batch lacks its embedding or its id.
Incomplete(chunks) ==
    \E i \in 1..Len(chunks) : ~HasEmbedding(chunks[i]) \/ ~HasId(chunks[i])

\* C16: add_chunks of a batch in which a chunk lacks its embedding or its id
\* fails and writes nothing to the collection.
C16_BatchAtomicInsert ==
    [][(op'.name = "add_chunks" /\ Incomplete(batch'[1])) =>
        ~op'.ok /\ collection' = collection]_vars

\* C19: reset leaves used_chunk_ids and usage_history both empty in one
\* step and keeps session_id.
C19_ResetClearsBoth ==
    [][op'.name = "reset" =>
        /\ session'.used_chunk_ids = {}
        /\ session'.usage_history = <<>>
        /\ session'.session_id = session.session_id
    ]_vars

\* C19 witness: a reset has just cleared a session that had used ids.
C19_Witness ==
    /\ op.name = "reset"
    /\ retired # {}
    /\ session = NewSession("s1")

\* C20: changing a list that get_exclusion_list returned leaves the session
\* as it is, and mark_used and reset leave a returned list as it is.
C20_ExclusionListIsSnapshot ==
    [][/\ op'.name = "mutate_snapshot" => session' = session
       /\ (op'.name \in {"mark_used", "reset"} /\ snapshot # None) => snapshot' = snapshot
    ]_vars

\* C20 witness: a returned list to which the caller appended an id the
\* session has not used, the session having marked another id since.
C20_Witness ==
    /\ op.name = "mark_used"
    /\ snapshot # None
    /\ \E id \in Range(snapshot[1].items) : id \notin session.used_chunk_ids
    /\ \E id \in session.used_chunk_ids : id \notin Range(snapshot[1].items)
    /\ Range(snapshot[1].items) \cap session.used_chunk_ids # {}

\* The candidates of rows that are neither used nor excluded by the caller
\* and that pass every requested post-filter, in the order of rows.
Survivors(s, req, rows) ==
    LET Survives(r) ==
            /\ r.chunk_id \notin s.used_chunk_ids \cup ExcludedBy(req)
            /\ PassesField(r.chunk_id, "emotional_tone", req.emotional_tone)
            /\ PassesField(r.chunk_id, "themes", req.themes)
    IN  SelectSeq(rows, Survives)

\* C3 witness: a call returned exactly max_results results although more
\* candidates of the store's answer survived the filters.
C3_Witness ==
    /\ GetReturned
    /\ call[1].max_results >= 1
    /\ Len(result[1]) = call[1].max_results
    /\ Len(Survivors(session, call[1], answer[1].rows)) > call[1].max_results

\* C21: get_shakespeare_quote with a cap of max_results >= 0 returns exactly
\* the first max_results survivors of the store's answer, all of them when
\* there are fewer, the empty list when there are none.
C21_ReferenceResult ==
    (GetReturned /\ call[1].max_results >= 0) =>
        result[1] = Take(Survivors(session, call[1], answer[1].rows), call[1].max_results)

\* C22: every get_shakespeare_quote call issues exactly one store query,
\* with limit 3 * max_results, however few candidates survive.
C22_OneStoreQuery ==
    op.name \in {"get_shakespeare_quote", "select_and_mark_used"} =>
        /\ Len(queries) = 1
        /\ queries[1].n_results = 3 * call[1].max_results
        /\ queries[1].query_text = call[1].semantic_query

\* C22 witness: a call returned fewer results than max_results, the store
\* having answered its one query with a full window of candidates.
C22_Witness ==
    /\ GetReturned
    /\ Len(queries) = 1
    /\ Len(result[1]) < call[1].max_results
    /\ Len(answer[1].rows) = 3

\* C23: when emotional_tone or themes is requested with a non-empty list, no
\* returned fragment lacks that field in its metadata.
C23_MissingFieldFails ==
    GetReturned =>
        \A i \in 1..Len(result[1]) :
            /\ Truthy(call[1].emotional_tone) =>
                  "emotional_tone" \in DOMAIN result[1][i].metadata
            /\ Truthy(call[1].themes) => "themes" \in DOMAIN result[1][i].metadata

\* The list-valued filters of a request.
ListFilters == {"emotional_tone", "themes"}

\* C24: a call whose emotional_tone or themes is the empty list issues the
\* query and returns the result of the same call with that filter omitted.
C24_EmptyListIsAbsent ==
    GetReturned =>
        \A f \in ListFilters :
            call[1][f] = Some(<<>>) =>
                LET omitted == [call[1] EXCEPT ![f] = None]
                IN  /\ result[1] = Take(Survivors(session, omitted, answer[1].rows),
                                        call[1].max_results)
                    /\ queries[1].where = WhereOf(omitted)

\* C24 witness: a call with an empty themes list and a tone filter returned a
\* fragment, and a candidate that fails the tone filter was dropped.
C24_Witness ==
    /\ GetReturned
    /\ call[1].themes = Some(<<>>)
    /\ Truthy(call[1].emotional_tone)
    /\ result[1] # <<>>
    /\ Len(result[1]) < call[1].max_results
    /\ Len(answer[1].rows) > Len(result[1])

\* The scalar filter arguments, the ones a call supplies (given and not
\* empty), and the metadata key each is sent under.
ScalarFilters == {"context_type", "chunk_type", "formality_level", "play_title"}

Supplied(req) == {k \in ScalarFilters : req[k] # None /\ req[k][1] # ""}

StoreKey(k) == IF k = "context_type" THEN "context" ELSE k

\* C25: the where argument of the store query holds exactly the supplied
\* scalar filters, context_type under the key context, each with the
\* requested value; it is None when none is supplied; emotional_tone and
\* themes are never in it; every candidate the store answers with carries
\* exactly the requested value under each key.
C25_PushdownSet ==
    op.name \in {"get_shakespeare_quote", "select_and_mark_used"} =>
        LET req == call[1]
            where == queries[1].where
        IN  /\ Supplied(req) = {} => where = None
            /\ Supplied(req) # {} =>
                  /\ where # None
                  /\ DOMAIN where[1] = {StoreKey(k) : k \in Supplied(req)}
                  /\ \A k \in Supplied(req) : where[1][StoreKey(k)] = req[k][1]
            /\ answer[1].ok =>
                  \A i \in 1..Len(answer[1].rows) : \A k \in Supplied(req) :
                      /\ StoreKey(k) \in DOMAIN answer[1].rows[i].metadata
                      /\ answer[1].rows[i].metadata[StoreKey(k)] = req[k][1]

\* C25 witness: a call with a context_type, a play_title and a tone filter
\* returned a fragment.
C25_Witness ==
    /\ GetReturned
    /\ {"context_type", "play_title"} \subseteq Supplied(call[1])
    /\ Truthy(call[1].emotional_tone)
    /\ result[1] # <<>>

\* The over-fetch window of a request: the ids among the 3 * max_results
\* nearest fragments that match its store predicates.
Window(req) ==
    UNION {Range(Take(ranking, 3 * req.max_results)) :
             ranking \in Rankings(collection, req.semantic_query, WhereOf(req))}

\* The ids of the window that were unused before the last call and pass
\* the request's post-filters.
Selectable(req, used_before) ==
    {id \in Window(req) :
        /\ id \notin used_before
        /\ PassesField(id, "emotional_tone", req.emotional_tone)
        /\ PassesField(id, "themes", req.themes)}

\* C28: against the unchanged store, every select_and_mark_used call with
\* max_results = N >= 1 returns ids of the request's over-fetch window only,
\* a set of at most 3N ids that is the same at every call, so that repeated
\* calls return at most 3N distinct ids in total; once every id of the
\* window is used or fails a post-filter, the call returns the empty list.
C28_WindowExhaustion ==
    (SelectReturned /\ call[1].max_results >= 1) =>
        LET req == call[1]
            ids == Range(Ids(result[1]))
        IN  /\ ids \subseteq Window(req)
            /\ Cardinality(Window(req)) <= 3 * req.max_results
            /\ Selectable(req, session.used_chunk_ids \ ids) = {} => result[1] = <<>>

\* C28 witness: after an earlier call returned a fragment, a call returned the
\* empty list although the store holds a matching fragment outside the window
\* that is unused and passes the post-filters.
C28_Witness ==
    /\ SelectReturned
    /\ call[1].max_results >= 1
    /\ returned # <<>>
    /\ result[1] = <<>>
    /\ \E id \in MatchingIds(collection, WhereOf(call[1])) \ Window(call[1]) :
          /\ id \notin session.used_chunk_ids
          /\ PassesField(id, "emotional_tone", call[1].emotional_tone)
          /\ PassesField(id, "themes", call[1].themes)

\* C26: generate_scene resets the session before its first tool call: in a
\* scene the used set is exactly the ids its own tool calls returned and the
\* history has one record for each (both empty before the first tool call),
\* whatever earlier scenes used; no id is returned twice within the scene.
C26_SceneStartsFresh ==
    scene.pc # "idle" =>
        /\ session.used_chunk_ids = Range(returned)
        /\ Len(session.usage_history) = Len(returned)
        /\ NoDuplicates(returned)
        /\ scene.tool_calls = 0 =>
              session.used_chunk_ids = {} /\ session.usage_history = <<>>

\* C26 witness: a tool call of a scene returned an id that an earlier scene
\* of the same generator had used, after another tool call of the scene.
C26_Witness ==
    /\ Running
    /\ SelectReturned
    /\ scene.tool_calls >= 2
    /\ Range(Ids(result[1])) \cap retired # {}

Max0(n) == IF n > 0 THEN n ELSE 0

\* What the loop of the scene in progress can still do: the turns left, then
\* the tool_use blocks left in the turn, then the return.
SceneMeasure ==
    LET left == Max0(scene.max_turns - scene.turn_count)
    IN  CASE scene.pc = "llm" -> 4 * left + 2
          [] scene.pc = "tools" -> 4 * left + 3 + Len(scene.pending)
          [] scene.pc = "return" -> 1
          [] OTHER -> 0

SceneBounded ==
    /\ scene.llm_calls <= Max0(scene.max_turns)
    /\ scene.turn_count = scene.llm_calls
    /\ scene.pc = "done" =>
          /\ scene.report[1].turn_count = scene.llm_calls
          /\ scene.report[1].turn_count <= Max0(scene.max_turns)
          /\ scene.max_turns <= 0 => scene.report[1].turn_count = 0

\* C27: a scene makes at most max_turns LLM calls (none when max_turns <= 0),
\* the reported turn_count is the number of LLM calls made, and every step
\* of a scene in progress brings it nearer to its return: the measure of
\* what is left strictly decreases, so generate_scene terminates when each
\* LLM and store call returns.
C27_BoundedLoop ==
    /\ []SceneBounded
    /\ [][Running => SceneMeasure' < SceneMeasure]_vars

\* C27 witness: a scene returned after its loop ran max_turns >= 2 turns.
C27_Witness ==
    /\ scene.pc = "done"
    /\ scene.max_turns >= 2
    /\ scene.report[1].turn_count = scene.max_turns
    /\ scene.tool_calls >= 1

\* C29: the quotes_used a scene reports is the number of distinct chunk ids
\* its tool calls returned, which is the total number of results they
\* returned.
C29_QuotesUsedCount ==
    scene.pc = "done" =>
        /\ scene.report[1].quotes_used = Cardinality(Range(returned))
        /\ scene.report[1].quotes_used = Len(returned)

\* C29 witness: a scene with two tool calls returned and reports two quotes,
\* after an earlier scene had used quotes.
C29_Witness ==
    /\ scene.pc = "done"
    /\ scene.tool_calls >= 2
    /\ scene.report[1].quotes_used >= 2
    /\ retired # {}

\* user, assistant, user, ...
Alternates(msgs) ==
    \A i \in 1..Len(msgs) : msgs[i].role = IF i % 2 = 1 THEN "user" ELSE "assistant"

\* The ids of the tool_use blocks that name the quote tool, in block order.
QuoteIds(blocks) ==
    LET IsQuote(b) == b.name = QuoteTool
        quote == SelectSeq(blocks, IsQuote)
    IN  [i \in 1..Len(quote) |-> quote[i].id]

\* C30: the messages start with a user message; whenever the LLM is about to
\* be called they alternate user/assistant and end with a user message; an
\* assistant response with tool_use blocks is followed by exactly one user
\* message, holding the results of the executed blocks in block order; a
\* text-only response that is not the last is followed by exactly one
\* continuation prompt.
C30_MessagesAlternate ==
    scene.pc # "idle" =>
        LET msgs == scene.messages
            last == Len(msgs)
        IN  /\ msgs # <<>> /\ msgs[1].role = "user"
            /\ (scene.pc = "llm" /\ scene.turn_count < scene.max_turns) =>
                  Alternates(msgs) /\ msgs[last].role = "user"
            /\ \A i \in 1..last :
                  msgs[i].kind = "tool_use" =>
                      /\ i = last => scene.pc \in {"tools", "raised"}
                      /\ i < last =>
                            /\ msgs[i + 1].kind = "tool_results"
                            /\ msgs[i + 1].ids = QuoteIds(msgs[i].blocks)
                            /\ i + 2 <= last => msgs[i + 2].role = "assistant"
            /\ \A i \in 1..last :
                  (msgs[i].kind = "text" /\ \E j \in (i + 1)..last : msgs[j].role = "assistant") =>
                      /\ msgs[i + 1] = ContinueMessage
                      /\ msgs[i + 2].role = "assistant"

\* C30 witness: a response with two tool_use blocks, one of them for the
\* quote tool alone, was answered by one user message and the LLM was called
\* again.
C30_Witness ==
    \E i \in 1..Len(scene.messages) :
        /\ scene.messages[i].kind = "tool_use"
        /\ Len(scene.messages[i].blocks) = 2
        /\ i + 2 <= Len(scene.messages)
        /\ Len(scene.messages[i + 1].ids) = 1
        /\ scene.messages[i + 2].role = "assistant"

=============================================================================
